---- MODULE Spec2Model ----
(***************************************************************************)
(* A model of app.py, the Streamlit job-application assistant: the resume  *)
(* loader, the skill extractor and comparator, the summarizer adapter, the *)
(* cover-letter composer and the resume renderer, and main(), the script   *)
(* run that strings them together.                                         *)
(*                                                                         *)
(* Text is a sequence of character codes (ASCII).  The external            *)
(* capabilities (the spaCy pipeline, the two transformers pipelines, the   *)
(* PDF and DOCX readers) are nondeterministic choices over the results     *)
(* they can hand back, failure included.                                   *)
(***************************************************************************)
EXTENDS Integers, Sequences, FiniteSets, TLC

VARIABLES
    pc,                     \* position of the script run or of the call
    job_desc,               \* main: the text area's value
    resume_file,            \* main: the upload, None or Some([name, parts, corrupt])
    resume_text,            \* main: load_resume's result; the renderer's input
    job_summary,            \* main: analyze_text(job_desc)
    resume_summary,         \* main: analyze_text(resume_text)
    job_skills,             \* main: extract_skills(job_desc)
    resume_skills,          \* main: extract_skills(resume_text)
    matched_skills,         \* main: job_skills & resume_skills
    missing_skills,         \* main: job_skills - resume_skills
    extra_skills,           \* main: resume_skills - job_skills
    top_extra,              \* main: the ranked extra skills
    doc_chunks,             \* extract_skills: the texts of doc.noun_chunks
    tone,                   \* the cover letter's tone
    cover_letter_raw,       \* generate_cover_letter's result
    cover_letter_formatted, \* main: the formatted letter
    content,                \* generate_updated_resume: the block list
    st_error,               \* the st.error messages shown, in order
    st_widgets,             \* the result widgets emitted, in order
    summarizer_calls,       \* the inputs handed to the summarizer pipeline
    text_gen_calls,         \* the prompts handed to the text_gen pipeline
    reader_calls,           \* the readers called, in order
    raised                  \* the exception that left the call, or None

inputs == <<job_desc, resume_file, doc_chunks>>
texts == <<resume_text, job_summary, resume_summary>>
skills == <<job_skills, resume_skills, matched_skills, missing_skills,
            extra_skills, top_extra>>
letter == <<tone, cover_letter_raw, cover_letter_formatted>>
effects == <<st_error, st_widgets, summarizer_calls, text_gen_calls,
             reader_calls, raised>>

vars == <<pc, inputs, texts, skills, letter, content, effects>>

---------------------------------------------------------------------------
(* Python values *)

\* Python's None, and a value that is not None.
None == [none |-> TRUE]
Some(v) == [none |-> FALSE, val |-> v]

\* The truth value of an optional text: None and "" are false.
Truthy(x) == ~x.none /\ x.val # <<>>

Min(a, b) == IF a <= b THEN a ELSE b

\* The values of the variables a call does not touch.
NoInputs == job_desc = <<>> /\ resume_file = None /\ doc_chunks = <<>>
NoTexts == resume_text = None /\ job_summary = None /\ resume_summary = None
NoLetter ==
    tone = "friendly" /\ cover_letter_raw = None /\ cover_letter_formatted = None
NoEffects ==
    /\ st_error = <<>> /\ st_widgets = <<>>
    /\ summarizer_calls = <<>> /\ text_gen_calls = <<>> /\ reader_calls = <<>>
    /\ raised = None

\* s[:n]
Take(s, n) == SubSeq(s, 1, Min(n, Len(s)))

\* c * n
Rep(c, n) == [k \in 1..n |-> c]

\* str.isspace of one character (ASCII): \t \n \v \f \r, \x1c-\x1f, space.
IsSpace(c) == c \in (9..13) \cup (28..32)

\* str.isalpha of one character (ASCII).
IsAlpha(c) == c \in (65..90) \cup (97..122)

\* str.lower (ASCII).
Lower(s) == [k \in 1..Len(s) |-> IF s[k] \in 65..90 THEN s[k] + 32 ELSE s[k]]

\* The least element of a non-empty set of integers.
Least(S) == CHOOSE k \in S : \A j \in S : k <= j

\* str.strip(): leading and trailing whitespace removed.  lead and trail are
\* the counts of characters before the first and after the last one that is no
\* whitespace.
Strip(s) ==
    LET n == Len(s)
        lead == {k \in 0..(n - 1) : ~IsSpace(s[k + 1])}
        trail == {k \in 0..(n - 1) : ~IsSpace(s[n - k])}
    IN  IF lead = {} THEN <<>> ELSE SubSeq(s, Least(lead) + 1, n - Least(trail))

\* str.endswith
EndsWith(s, suffix) ==
    /\ Len(suffix) <= Len(s)
    /\ SubSeq(s, Len(s) - Len(suffix) + 1, Len(s)) = suffix

\* str.split(sep) for a one-character separator.
RECURSIVE Split(_, _)
Split(s, sep) ==
    LET hits == {k \in 1..Len(s) : s[k] = sep}
    IN  IF hits = {} THEN <<s>>
        ELSE <<SubSeq(s, 1, Least(hits) - 1)>>
             \o Split(SubSeq(s, Least(hits) + 1, Len(s)), sep)

\* a < b for strings: Python compares code point by code point, then length.
StrLess(a, b) ==
    \/ /\ Len(a) < Len(b)
       /\ SubSeq(b, 1, Len(a)) = a
    \/ \E k \in 1..Min(Len(a), Len(b)) :
          /\ SubSeq(a, 1, k - 1) = SubSeq(b, 1, k - 1)
          /\ a[k] < b[k]

---------------------------------------------------------------------------
(* The skill comparator: main(), lines 172-174 and 182 *)

\* job_skills & resume_skills
MatchedByPrefix(J, R) == {s \in J : \E r \in R : SubSeq(r, 1, Min(Len(s), Len(r))) = s}
Matched(J, R) == J \cap R

\* job_skills - resume_skills
Missing(J, R) == J \ R

\* resume_skills - job_skills
Extra(J, R) == R \ J

\* The key of the ranking, lambda s: (-len(s), s), compared as tuples.
KeyLessAscendingLength(a, b) == Len(a) < Len(b) \/ (Len(a) = Len(b) /\ StrLess(a, b))
KeyLess(a, b) == -Len(a) < -Len(b) \/ (-Len(a) = -Len(b) /\ StrLess(a, b))

\* sorted(iterable, key=...): a stable sort, here by insertion from the left:
\* an element goes after every element whose key is not greater than its own.
RECURSIVE Sorted(_)
Sorted(seq) ==
    IF seq = <<>> THEN <<>>
    ELSE LET n == Len(seq)
             x == seq[n]
             rest == Sorted(SubSeq(seq, 1, n - 1))
             before == {k \in 1..Len(rest) : ~KeyLess(x, rest[k])}
             cut == Cardinality(before)
         IN  SubSeq(rest, 1, cut) \o <<x>> \o SubSeq(rest, cut + 1, Len(rest))

\* The number of ranked extra skills kept.
TopK == 10

\* The slots of the hash table a set is iterated by, and the hash seeds of a run.
TableSize == 8
HashSeeds == 3

RECURSIVE Sum(_)
Sum(s) == IF s = <<>> THEN 0 ELSE s[1] + Sum(Tail(s))

\* The order a set of strings is iterated in: by hash slot, which changes with
\* the process's hash seed; strings sharing a slot in any fixed order.
Slot(s, seed) == (seed * Sum(s) + Len(s)) % TableSize
RECURSIVE SetIter(_, _)
SetIter(S, seed) ==
    IF S = {} THEN <<>>
    ELSE LET x == CHOOSE x \in S : \A y \in S \ {x} :
                      \/ Slot(x, seed) < Slot(y, seed)
                      \/ Slot(x, seed) = Slot(y, seed) /\ StrLess(x, y)
         IN  <<x>> \o SetIter(S \ {x}, seed)

\* sorted(extra_skills, key=lambda s: (-len(s), s))[:10]
TopExtra(iter) == Take(Sorted(iter), TopK)

---------------------------------------------------------------------------
(* The skill extractor: extract_skills, lines 109-116 *)

\* The bounds of the length filter: 3 < len(phrase) < 30.
MinLen == 3
MaxLen == 30

\* phrase = chunk.text.strip().lower()
Normalize(chunk) == Lower(Strip(chunk))

\* 3 < len(phrase) < 30 and phrase[0].isalpha(); `and` does not look at
\* phrase[0] when the length test has failed.
KeepInclusive(phrase) ==
    IF MinLen <= Len(phrase) /\ Len(phrase) <= MaxLen THEN IsAlpha(phrase[1]) ELSE FALSE
Keep(phrase) ==
    IF MinLen < Len(phrase) /\ Len(phrase) < MaxLen THEN IsAlpha(phrase[1]) ELSE FALSE

\* The loop over doc.noun_chunks: the set of the normalized chunk texts that
\* pass the filter.
extract_skills(chunks) ==
    {p \in {Normalize(chunks[k]) : k \in 1..Len(chunks)} : Keep(p)}

---------------------------------------------------------------------------
(* The resume renderer: generate_updated_resume, lines 65-83 *)

\* 'Updated Resume'
HeadingText == <<85, 112, 100, 97, 116, 101, 100, 32, 82, 101, 115, 117, 109,
    101>>

\* Paragraph("Updated Resume", header_style)
HeadingBlock == [kind |-> "Paragraph", text |-> HeadingText, style |-> "Heading1"]

\* Spacer(1, 12)
SpacerBlock == [kind |-> "Spacer", width |-> 1, height |-> 12]

\* Paragraph(line.strip(), normal_style)
NormalParagraph(line) ==
    [kind |-> "Paragraph", text |-> Strip(line), style |-> "NormalText"]

\* if line.strip():
KeepLineIfNotEmpty(line) == line # <<>>
KeepLine(line) == Strip(line) # <<>>

\* The loop over resume_text.split("\n").
RECURSIVE LineBlocks(_)
LineBlocks(lines) ==
    IF lines = <<>> THEN <<>>
    ELSE (IF KeepLine(Head(lines)) THEN <<NormalParagraph(Head(lines))>> ELSE <<>>)
         \o LineBlocks(Tail(lines))

\* The content list handed to doc.build.
generate_updated_resume(text) ==
    <<HeadingBlock, SpacerBlock>> \o LineBlocks(Split(text, 10))

---------------------------------------------------------------------------
(* The summarizer adapter: analyze_text, lines 86-95 *)

\* text[:1500]
MaxInput == 1500

\* One call of the summarizer pipeline on the truncated text.  reply is what
\* the pipeline does: Some(summary), or None when it raises.  The call is
\* logged with its input and whether it returned; an exception is not caught
\* here and leaves analyze_text.
analyze_text(text, reply) ==
    [calls |-> <<[input |-> Take(text, MaxInput), ok |-> ~reply.none]>>,
     value |-> reply,
     raised |-> IF reply.none THEN Some("SummarizerError") ELSE None]

---------------------------------------------------------------------------
(* The cover letter composer: generate_cover_letter, lines 98-106 *)

\* 'Write a friendly and positive cover letter'
FriendlyPrefix == <<87, 114, 105, 116, 101, 32, 97, 32, 102, 114, 105, 101,
    110, 100, 108, 121, 32, 97, 110, 100, 32, 112, 111, 115, 105, 116, 105,
    118, 101, 32, 99, 111, 118, 101, 114, 32, 108, 101, 116, 116, 101, 114>>
\* 'Write a professional and formal cover letter'
ProfessionalPrefix == <<87, 114, 105, 116, 101, 32, 97, 32, 112, 114, 111,
    102, 101, 115, 115, 105, 111, 110, 97, 108, 32, 97, 110, 100, 32, 102,
    111, 114, 109, 97, 108, 32, 99, 111, 118, 101, 114, 32, 108, 101, 116,
    116, 101, 114>>
\* 'Write a casual and informal cover letter'
InformalPrefix == <<87, 114, 105, 116, 101, 32, 97, 32, 99, 97, 115, 117, 97,
    108, 32, 97, 110, 100, 32, 105, 110, 102, 111, 114, 109, 97, 108, 32, 99,
    111, 118, 101, 114, 32, 108, 101, 116, 116, 101, 114>>
\* ' based on the following summary: '
PromptInfix == <<32, 98, 97, 115, 101, 100, 32, 111, 110, 32, 116, 104, 101,
    32, 102, 111, 108, 108, 111, 119, 105, 110, 103, 32, 115, 117, 109, 109,
    97, 114, 121, 58, 32>>

prompts ==
    [friendly |-> FriendlyPrefix,
     professional |-> ProfessionalPrefix,
     informal |-> InformalPrefix]

\* summary[:700]
MaxSummary == 700

\* f"{prompts[tone]} based on the following summary: {summary[:700]}"
Prompt(summary, t) == prompts[t] \o PromptInfix \o Take(summary, MaxSummary)

\* prompts[tone] raises KeyError for a tone that is no key, before text_gen is
\* called; otherwise one call of text_gen on the prompt.  reply is what the
\* pipeline does: Some(generated text), or None when it raises.
generate_cover_letter_with_default(summary, t, reply) ==
    LET used == IF t \in DOMAIN prompts THEN t ELSE "friendly"
    IN  [calls |-> <<Prompt(summary, used)>>,
         value |-> reply,
         raised |-> IF reply.none THEN Some("GenerationError") ELSE None]
generate_cover_letter(summary, t, reply) ==
    IF t \notin DOMAIN prompts
    THEN [calls |-> <<>>, value |-> None, raised |-> Some("KeyError")]
    ELSE [calls |-> <<Prompt(summary, t)>>,
          value |-> reply,
          raised |-> IF reply.none THEN Some("GenerationError") ELSE None]

\* main(), line 193: job_summary + " " + resume_summary
FullSummary(js, rs) == js \o <<32>> \o rs

\* 'Dear Hiring Manager,\n\n'
Salutation == <<68, 101, 97, 114, 32, 72, 105, 114, 105, 110, 103, 32, 77,
    97, 110, 97, 103, 101, 114, 44, 10, 10>>
\* '\n\nSincerely,\nParsha Uday'
Closing == <<10, 10, 83, 105, 110, 99, 101, 114, 101, 108, 121, 44, 10, 80,
    97, 114, 115, 104, 97, 32, 85, 100, 97, 121>>

\* main(), lines 195-199
FormatLetterUnstripped(raw) == Salutation \o raw \o Closing
FormatLetter(raw) == Salutation \o Strip(raw) \o Closing

---------------------------------------------------------------------------
(* The document loader: read_pdf, read_docx, load_resume, lines 39-62 *)

\* An upload is [name, parts, corrupt]: its file name, the texts its parser
\* yields (a PDF's pages, each Some(text) or None; a DOCX's paragraphs, each
\* Some(text)), and whether the parser raises on it.

\* '.pdf'
DotPdf == <<46, 112, 100, 102>>
\* '.docx'
DotDocx == <<46, 100, 111, 99, 120>>

\* read_pdf: the page texts that are neither None nor empty, concatenated.
RECURSIVE read_pdf(_)
read_pdf(pages) ==
    IF pages = <<>> THEN <<>>
    ELSE (IF Truthy(Head(pages)) THEN Head(pages).val ELSE <<>>)
         \o read_pdf(Tail(pages))

\* read_docx: every paragraph's text followed by a newline.
RECURSIVE read_docx(_)
read_docx(paragraphs) ==
    IF paragraphs = <<>> THEN <<>>
    ELSE Head(paragraphs).val \o <<10>> \o read_docx(Tail(paragraphs))

\* load_resume: the reader of the name's ending is called; any other name gets
\* st.error("Unsupported file format") and None.  What a reader raises is not
\* caught.
load_resume_docx_by_default(file) ==
    IF EndsWith(file.name, DotPdf)
    THEN [readers |-> <<"read_pdf">>, errors |-> <<>>,
          value |-> IF file.corrupt THEN None ELSE Some(read_pdf(file.parts)),
          raised |-> IF file.corrupt THEN Some("ReaderError") ELSE None]
    ELSE [readers |-> <<"read_docx">>, errors |-> <<>>,
          value |-> IF file.corrupt THEN None ELSE Some(read_docx(file.parts)),
          raised |-> IF file.corrupt THEN Some("ReaderError") ELSE None]
load_resume(file) ==
    IF EndsWith(file.name, DotPdf)
    THEN [readers |-> <<"read_pdf">>, errors |-> <<>>,
          value |-> IF file.corrupt THEN None ELSE Some(read_pdf(file.parts)),
          raised |-> IF file.corrupt THEN Some("ReaderError") ELSE None]
    ELSE IF EndsWith(file.name, DotDocx)
    THEN [readers |-> <<"read_docx">>, errors |-> <<>>,
          value |-> IF file.corrupt THEN None ELSE Some(read_docx(file.parts)),
          raised |-> IF file.corrupt THEN Some("ReaderError") ELSE None]
    ELSE [readers |-> <<>>, errors |-> <<"Unsupported file format">>,
          value |-> None, raised |-> None]

---------------------------------------------------------------------------
(* The comparator applied to phrase sets *)

\* The sizes of the phrase universes the comparator and the ranking are fed.
CmpPhrases == 5
RankPhrases == 12

\* The i-th phrase: 4 to 6 lower-case letters, so that phrases tie in length,
\* differ in their first or second letter, and some are prefixes of others.
Phrase(i) ==
    [k \in 1..(4 + (i % 3)) |->
        IF k = 1 THEN 97 + (i % 2) ELSE IF k = 2 THEN 97 + (i \div 6) ELSE 97]

CmpUniverse == {Phrase(i) : i \in 1..CmpPhrases}
RankUniverse == {Phrase(i) : i \in 1..RankPhrases}

InitCompare ==
    /\ pc = "compare"
    /\ job_skills \in SUBSET CmpUniverse
    /\ resume_skills \in SUBSET CmpUniverse
    /\ matched_skills = {} /\ missing_skills = {} /\ extra_skills = {}
    /\ top_extra = <<>>
    /\ content = <<>>
    /\ NoInputs /\ NoTexts /\ NoLetter /\ NoEffects

\* main(), lines 172-174
compare_skills ==
    /\ pc = "compare"
    /\ matched_skills' = Matched(job_skills, resume_skills)
    /\ missing_skills' = Missing(job_skills, resume_skills)
    /\ extra_skills' = Extra(job_skills, resume_skills)
    /\ pc' = "rank"
    /\ UNCHANGED <<inputs, texts, job_skills, resume_skills, top_extra, letter,
                   content, effects>>

\* main(), line 182: the set is iterated in the order of this run's hash seed.
rank_extra ==
    /\ pc = "rank"
    /\ \E seed \in 1..HashSeeds :
          top_extra' = TopExtra(SetIter(extra_skills, seed))
    /\ pc' = "ranked"
    /\ UNCHANGED <<inputs, texts, job_skills, resume_skills, matched_skills,
                   missing_skills, extra_skills, letter, content, effects>>

NextCompare == compare_skills \/ rank_extra
SpecCompare == InitCompare /\ [][NextCompare]_vars

\* The ranking alone, on extra sets of more than TopK phrases.
InitRank ==
    /\ pc = "rank"
    /\ extra_skills \in SUBSET RankUniverse
    /\ job_skills = {}
    /\ resume_skills = extra_skills
    /\ matched_skills = {} /\ missing_skills = {}
    /\ top_extra = <<>>
    /\ content = <<>>
    /\ NoInputs /\ NoTexts /\ NoLetter /\ NoEffects

NextRank == rank_extra
SpecRank == InitRank /\ [][NextRank]_vars

---------------------------------------------------------------------------
(* Properties of the comparator *)

ProperPrefix(a, b) == Len(a) < Len(b) /\ SubSeq(b, 1, Len(a)) = a

\* C1: once the comparison has run, a phrase is matched iff it is, as the same
\* string, in both the job set and the resume set, missing iff it is in the job
\* set only, extra iff it is in the resume set only; matched and missing
\* together are the job set, matched and extra the resume set, and the three
\* are pairwise disjoint.
C1_SetAlgebra ==
    pc \in {"rank", "ranked"} =>
        /\ \A s \in CmpUniverse :
              /\ s \in matched_skills <=> (s \in job_skills /\ s \in resume_skills)
              /\ s \in missing_skills <=> (s \in job_skills /\ s \notin resume_skills)
              /\ s \in extra_skills <=> (s \in resume_skills /\ s \notin job_skills)
        /\ matched_skills \cup missing_skills \cup extra_skills \subseteq CmpUniverse
        /\ matched_skills \cup missing_skills = job_skills
        /\ matched_skills \cup extra_skills = resume_skills
        /\ matched_skills \cap missing_skills = {}
        /\ matched_skills \cap extra_skills = {}
        /\ missing_skills \cap extra_skills = {}

\* C1's case: all three sets are non-empty, and a job phrase that is only a
\* prefix of a resume phrase is missing, not matched.
C1_Witness ==
    /\ pc = "rank"
    /\ matched_skills # {} /\ extra_skills # {}
    /\ \E s \in missing_skills : \E r \in resume_skills : ProperPrefix(s, r)

\* C2: the ranked list has no duplicates, holds only extra skills, is
\* min(TopK, |extra|) long, runs by descending length and, at equal length, by
\* ascending string order, and no skill left out ranks before one kept.
C2_RankedExtra ==
    pc = "ranked" =>
        /\ \A k \in 1..Len(top_extra) : top_extra[k] \in extra_skills
        /\ \A j, k \in 1..Len(top_extra) : j # k => top_extra[j] # top_extra[k]
        /\ Len(top_extra) = Min(10, Cardinality(extra_skills))
        /\ \A k \in 1..(Len(top_extra) - 1) :
              \/ Len(top_extra[k]) > Len(top_extra[k + 1])
              \/ /\ Len(top_extra[k]) = Len(top_extra[k + 1])
                 /\ StrLess(top_extra[k], top_extra[k + 1])
        /\ \A s \in extra_skills :
              (\A k \in 1..Len(top_extra) : top_extra[k] # s) =>
                  \A k \in 1..Len(top_extra) :
                      \/ Len(top_extra[k]) > Len(s)
                      \/ Len(top_extra[k]) = Len(s) /\ StrLess(top_extra[k], s)

\* C2's case: more than ten extra skills, ten kept, with a tie in length among
\* the kept ones that the string order decides.
C2_Witness ==
    /\ pc = "ranked"
    /\ Cardinality(extra_skills) > 10
    /\ Len(top_extra) = 10
    /\ \E k \in 1..9 : Len(top_extra[k]) = Len(top_extra[k + 1])
    /\ \E k \in 1..9 : Len(top_extra[k]) > Len(top_extra[k + 1])

---------------------------------------------------------------------------
(* The extractor applied to the chunks of a document *)

\* The most noun chunks a document is given.
MaxChunks == 2

\* The chunk texts spaCy may hand back: a run of n letters b, after nothing, a
\* space, a capital B or a digit, before nothing or a space; n around the two
\* bounds of the filter.
ChunkHeads == {<<>>, <<32>>, <<66>>, <<49>>}
ChunkTails == {<<>>, <<32>>}
ChunkRuns == {0, MinLen - 1, MinLen, MinLen + 1, MaxLen - 2, MaxLen - 1, MaxLen}
ChunkTexts == {h \o Rep(98, n) \o t : h \in ChunkHeads, n \in ChunkRuns, t \in ChunkTails}

InitExtract ==
    /\ pc = "extract"
    /\ doc_chunks \in UNION {[1..n -> ChunkTexts] : n \in 0..MaxChunks}
    /\ job_skills = {} /\ resume_skills = {}
    /\ matched_skills = {} /\ missing_skills = {} /\ extra_skills = {}
    /\ top_extra = <<>>
    /\ job_desc = <<>> /\ resume_file = None
    /\ content = <<>>
    /\ NoTexts /\ NoLetter /\ NoEffects

\* extract_skills on a document whose noun chunks are doc_chunks.
call_extract_skills ==
    /\ pc = "extract"
    /\ job_skills' = extract_skills(doc_chunks)
    /\ pc' = "extracted"
    /\ UNCHANGED <<inputs, texts, resume_skills, matched_skills, missing_skills,
                   extra_skills, top_extra, letter, content, effects>>

NextExtract == call_extract_skills
SpecExtract == InitExtract /\ [][NextExtract]_vars

\* C3: every phrase extract_skills returns has no upper-case letter, no
\* whitespace at either end, more than 3 and fewer than 30 characters and a
\* letter first (so it is neither empty nor blank); and a chunk's text,
\* stripped and lower-cased, is in the result iff it has more than 3 and fewer
\* than 30 characters and starts with a letter.
C3_PhraseFilter ==
    pc = "extracted" =>
        /\ \A p \in job_skills :
              /\ \A k \in 1..Len(p) : p[k] \notin 65..90
              /\ Len(p) > 3 /\ Len(p) < 30
              /\ ~IsSpace(p[1]) /\ ~IsSpace(p[Len(p)])
              /\ p[1] \in (65..90) \cup (97..122)
        /\ \A k \in 1..Len(doc_chunks) :
              LET p == Lower(Strip(doc_chunks[k]))
              IN  p \in job_skills <=>
                      (Len(p) > 3 /\ Len(p) < 30 /\ p[1] \in (65..90) \cup (97..122))

\* C3's case: of two chunks, the one of four characters with a capital first is
\* kept lower-cased, and the one of thirty characters is dropped.
C3_Witness ==
    /\ pc = "extracted"
    /\ Len(doc_chunks) = 2
    /\ doc_chunks[1] = <<66, 98, 98, 98>>
    /\ Len(doc_chunks[2]) = 30 /\ doc_chunks[2][1] = 98 /\ doc_chunks[2][30] = 98
    /\ job_skills = {<<98, 98, 98, 98>>}

---------------------------------------------------------------------------
(* The renderer applied to resume texts *)

\* The longest resume text the renderer is fed.
MaxTextLen == 5

\* The characters of those texts: a, b, space, newline.
TextChars == {97, 98, 32, 10}
RenderTexts == UNION {[1..n -> TextChars] : n \in 0..MaxTextLen}

InitRender ==
    /\ pc = "render"
    /\ resume_text \in {Some(t) : t \in RenderTexts}
    /\ job_summary = None /\ resume_summary = None
    /\ job_skills = {} /\ resume_skills = {}
    /\ matched_skills = {} /\ missing_skills = {} /\ extra_skills = {}
    /\ top_extra = <<>>
    /\ content = <<>>
    /\ NoInputs /\ NoLetter /\ NoEffects

\* main(), lines 206-207: the content list is built and handed to doc.build,
\* which returns or raises; nothing in main catches what it raises.
render_resume ==
    /\ pc = "render"
    /\ content' = generate_updated_resume(resume_text.val)
    /\ \/ /\ st_widgets' = Append(st_widgets, "resume_download")
          /\ pc' = "done"
          /\ UNCHANGED raised
       \/ /\ raised' = Some("RenderError")
          /\ pc' = "crashed"
          /\ UNCHANGED st_widgets
    /\ UNCHANGED <<inputs, texts, skills, letter, st_error, summarizer_calls,
                   text_gen_calls, reader_calls>>

NextRender == render_resume
SpecRender == InitRender /\ [][NextRender]_vars

\* The lines of a text, by the places of its newlines: a line starts after
\* position b, where b is 0 or the place of a newline, and runs to the next.
LineStarts(t) == {0} \cup {k \in 1..Len(t) : t[k] = 10}
LineAfter(t, b) ==
    LET ends == {k \in (b + 1)..Len(t) : t[k] = 10}
        e == IF ends = {} THEN Len(t) + 1 ELSE Least(ends)
    IN  SubSeq(t, b + 1, e - 1)
NonBlank(line) == \E k \in 1..Len(line) : ~IsSpace(line[k])
NonBlankStarts(t) == {b \in LineStarts(t) : NonBlank(LineAfter(t, b))}

\* A block is the paragraph of a line: its text is the line without the
\* whitespace at its ends.
ParagraphOf(block, line) ==
    /\ block.kind = "Paragraph" /\ block.style = "NormalText"
    /\ block.text # <<>>
    /\ ~IsSpace(block.text[1]) /\ ~IsSpace(block.text[Len(block.text)])
    /\ \E i \in 1..Len(line) :
          /\ SubSeq(line, i, i + Len(block.text) - 1) = block.text
          /\ \A k \in 1..Len(line) :
                (k < i \/ k >= i + Len(block.text)) => IsSpace(line[k])

\* C10, as stated: the content is the heading block followed by one paragraph
\* per non-blank line, in line order, and nothing else.
C10_HeadingThenParagraphs ==
    pc \in {"done", "crashed"} =>
        LET t == resume_text.val
            starts == NonBlankStarts(t)
        IN  /\ Len(content) = 1 + Cardinality(starts)
            /\ content[1] = HeadingBlock
            /\ \A b \in starts :
                  ParagraphOf(content[1 + Cardinality({c \in starts : c <= b})],
                              LineAfter(t, b))

\* C10, amended: the content is the heading block, the 12-point spacer, then
\* one paragraph per non-blank line, in line order, and nothing else; blank
\* lines leave nothing.
C10_HeadingSpacerParagraphs ==
    pc \in {"done", "crashed"} =>
        LET t == resume_text.val
            starts == NonBlankStarts(t)
        IN  /\ Len(content) = 2 + Cardinality(starts)
            /\ content[1] = HeadingBlock
            /\ content[2] = [kind |-> "Spacer", width |-> 1, height |-> 12]
            /\ \A b \in starts :
                  ParagraphOf(content[2 + Cardinality({c \in starts : c <= b})],
                              LineAfter(t, b))

\* C10's case: a text with a blank line between two non-blank lines, rendered
\* to the heading, the spacer and the two paragraphs in line order.
C10_Witness ==
    /\ pc = "done"
    /\ resume_text = Some(<<98, 10, 32, 10, 97>>)
    /\ Len(content) = 4
    /\ content[3].text = <<98>> /\ content[4].text = <<97>>

---------------------------------------------------------------------------
(* The composer called with any tone *)

\* What the summarizer pipeline may hand back: a summary, or None (it raises).
LongSummary == Rep(97, 400)
SummaryTexts == {<<>>, <<65, 32, 106, 111, 98, 46>>, LongSummary}
SummaryReplies == {None} \cup {Some(t) : t \in SummaryTexts}

\* What the text_gen pipeline may hand back: a text, or None (it raises).
GeneratedTexts == {<<>>, <<72, 105>>, <<32, 72, 105, 32, 10>>, <<10, 32, 9>>}
GenerationReplies == {None} \cup {Some(t) : t \in GeneratedTexts}

\* The options of the selectbox, and a tone that is none of them.
SelectboxTones == {"friendly", "professional", "informal"}
AnyTones == SelectboxTones \cup {"aggressive"}

InitCoverLetter ==
    /\ pc = "call"
    /\ job_summary \in {Some(t) : t \in SummaryTexts}
    /\ resume_summary \in {Some(t) : t \in SummaryTexts}
    /\ tone \in AnyTones
    /\ resume_text = None
    /\ cover_letter_raw = None /\ cover_letter_formatted = None
    /\ job_skills = {} /\ resume_skills = {}
    /\ matched_skills = {} /\ missing_skills = {} /\ extra_skills = {}
    /\ top_extra = <<>>
    /\ content = <<>>
    /\ NoInputs /\ NoEffects

\* generate_cover_letter(full_summary, tone), on its own: what it raises leaves
\* the call.
call_generate_cover_letter ==
    /\ pc = "call"
    /\ \E reply \in GenerationReplies :
          LET r == generate_cover_letter(
                       FullSummary(job_summary.val, resume_summary.val), tone, reply)
          IN  /\ text_gen_calls' = text_gen_calls \o r.calls
              /\ cover_letter_raw' = r.value
              /\ raised' = r.raised
              /\ pc' = IF r.raised.none THEN "returned" ELSE "raised"
    /\ UNCHANGED <<inputs, texts, skills, tone, cover_letter_formatted, content,
                   st_error, st_widgets, summarizer_calls, reader_calls>>

NextCoverLetter == call_generate_cover_letter
SpecCoverLetter == InitCoverLetter /\ [][NextCoverLetter]_vars

\* C5: after generate_cover_letter has been called with a tone other than
\* friendly, professional and informal, it has raised, text_gen has not been
\* called at all (with no tone's prompt) and nothing was returned; with one of
\* the three tones text_gen has been called exactly once, with that tone's prompt.
C5_UnknownToneFailsFirst ==
    pc # "call" =>
        IF tone \in {"friendly", "professional", "informal"}
        THEN /\ Len(text_gen_calls) = 1
             /\ SubSeq(text_gen_calls[1], 1, Len(prompts[tone])) = prompts[tone]
        ELSE /\ text_gen_calls = <<>>
             /\ pc = "raised" /\ raised = Some("KeyError")
             /\ cover_letter_raw = None

\* C5's case: the call with the tone "aggressive" has raised with no call made.
C5_Witness ==
    /\ pc = "raised"
    /\ tone = "aggressive"
    /\ text_gen_calls = <<>>

---------------------------------------------------------------------------
(* main(): one run of the script, lines 143-207 *)

\* The job descriptions typed: none, a short one, one longer than MaxInput.
ShortJob == <<100, 97, 116, 97, 32, 106, 111, 98, 115>>
LongJob == Rep(97, MaxInput + 1)
JobTexts == {<<>>, ShortJob, LongJob}

\* The uploads: none; PDFs with no page, with pages without text, with text;
\* DOCX files with no paragraph, an empty paragraph, with text; a file of
\* another type; a PDF its parser rejects.
PartA == <<68, 97, 116, 97, 32, 108, 97, 98, 115>>
PartB == <<32, 32, 10, 82, 117, 115, 116>>
PdfName == <<99, 118, 46, 112, 100, 102>>
DocxName == <<99, 118, 46, 100, 111, 99, 120>>
TxtName == <<99, 118, 46, 116, 120, 116>>
PdfPageLists ==
    {<<>>, <<None, Some(<<>>)>>, <<Some(PartA)>>, <<Some(PartA), None, Some(PartB)>>}
DocxParagraphLists ==
    {<<>>, <<Some(<<>>)>>, <<Some(PartA)>>, <<Some(PartA), Some(PartB)>>}
ResumeFiles ==
    {None}
    \cup {Some([name |-> PdfName, parts |-> ps, corrupt |-> FALSE]) : ps \in PdfPageLists}
    \cup {Some([name |-> DocxName, parts |-> ps, corrupt |-> FALSE]) :
             ps \in DocxParagraphLists}
    \cup {Some([name |-> TxtName, parts |-> <<Some(PartA)>>, corrupt |-> FALSE]),
          Some([name |-> PdfName, parts |-> <<>>, corrupt |-> TRUE])}

\* The noun chunks spaCy may find in a text: none, the whole text, or the runs
\* between its spaces.
NounChunks(text) == {<<>>, <<text>>, Split(text, 32)}

Init ==
    /\ pc = "start"
    /\ job_desc \in JobTexts
    /\ resume_file \in ResumeFiles
    /\ doc_chunks = <<>>
    /\ job_skills = {} /\ resume_skills = {}
    /\ matched_skills = {} /\ missing_skills = {} /\ extra_skills = {}
    /\ top_extra = <<>>
    /\ content = <<>>
    /\ NoTexts /\ NoLetter /\ NoEffects

\* line 155: if job_desc and resume_file
HasInputs == job_desc # <<>> /\ ~resume_file.none

\* line 159: if resume_text
ResumeLoadedNotNone(text) == ~text.none
ResumeLoaded(text) == Truthy(text)

\* line 155, condition false: the run shows the two input widgets and ends.
main_no_input ==
    /\ pc = "start"
    /\ ~HasInputs
    /\ pc' = "done"
    /\ UNCHANGED <<inputs, texts, skills, letter, content, effects>>

\* lines 155-159: load_resume, then the test of its result.
main_load_resume ==
    /\ pc = "start"
    /\ HasInputs
    /\ LET r == load_resume(resume_file.val)
       IN  /\ reader_calls' = reader_calls \o r.readers
           /\ st_error' = st_error \o r.errors
           /\ resume_text' = r.value
           /\ raised' = r.raised
           /\ pc' = IF ~r.raised.none THEN "crashed"
                    ELSE IF ResumeLoaded(r.value) THEN "analyze_job"
                    ELSE "done"
    /\ UNCHANGED <<inputs, job_summary, resume_summary, skills, letter, content,
                   st_widgets, summarizer_calls, text_gen_calls>>

\* line 160: job_summary = analyze_text(job_desc); nothing catches what it raises.
main_analyze_job ==
    /\ pc = "analyze_job"
    /\ \E reply \in SummaryReplies :
          LET r == analyze_text(job_desc, reply)
          IN  /\ summarizer_calls' = summarizer_calls \o r.calls
              /\ job_summary' = r.value
              /\ raised' = r.raised
              /\ pc' = IF r.raised.none THEN "analyze_resume" ELSE "crashed"
    /\ UNCHANGED <<inputs, resume_text, resume_summary, skills, letter, content,
                   st_error, st_widgets, text_gen_calls, reader_calls>>

\* lines 161-167: resume_summary = analyze_text(resume_text), then both
\* summaries are shown.
main_analyze_resume ==
    /\ pc = "analyze_resume"
    /\ \E reply \in SummaryReplies :
          LET r == analyze_text(resume_text.val, reply)
          IN  /\ summarizer_calls' = summarizer_calls \o r.calls
              /\ resume_summary' = r.value
              /\ raised' = r.raised
              /\ IF r.raised.none
                 THEN /\ st_widgets' = st_widgets \o <<"job_summary", "resume_summary">>
                      /\ pc' = "skills"
                 ELSE /\ UNCHANGED st_widgets
                      /\ pc' = "crashed"
    /\ UNCHANGED <<inputs, resume_text, job_summary, skills, letter, content,
                   st_error, text_gen_calls, reader_calls>>

\* lines 169-186: both texts' skills, the three sets, the ranking, the display.
main_compare_skills ==
    /\ pc = "skills"
    /\ \E jc \in NounChunks(job_desc), rc \in NounChunks(resume_text.val),
          seed \in 1..HashSeeds :
          LET J == extract_skills(jc)
              R == extract_skills(rc)
          IN  /\ job_skills' = J
              /\ resume_skills' = R
              /\ matched_skills' = Matched(J, R)
              /\ missing_skills' = Missing(J, R)
              /\ extra_skills' = Extra(J, R)
              /\ top_extra' = TopExtra(SetIter(Extra(J, R), seed))
    /\ st_widgets' = Append(st_widgets, "skills")
    /\ pc' = "cover_letter"
    /\ UNCHANGED <<inputs, texts, letter, content, st_error, summarizer_calls,
                   text_gen_calls, reader_calls, raised>>

\* lines 189-190, the button not pressed in this run.
main_no_cover_letter ==
    /\ pc = "cover_letter"
    /\ \E t \in SelectboxTones : tone' = t
    /\ pc' = "render"
    /\ UNCHANGED <<inputs, texts, skills, cover_letter_raw,
                   cover_letter_formatted, content, effects>>

\* lines 189-203, the button pressed: the letter is generated, formatted and
\* shown, or the exception's text is shown by st.error.
main_cover_letter ==
    /\ pc = "cover_letter"
    /\ \E t \in SelectboxTones, reply \in GenerationReplies :
          LET r == generate_cover_letter(
                       FullSummary(job_summary.val, resume_summary.val), t, reply)
          IN  /\ tone' = t
              /\ text_gen_calls' = text_gen_calls \o r.calls
              /\ IF r.raised.none
                 THEN /\ cover_letter_raw' = r.value
                      /\ cover_letter_formatted' = Some(FormatLetter(r.value.val))
                      /\ st_widgets' = st_widgets \o
                             <<"cover_letter_text", "cover_letter_download">>
                      /\ UNCHANGED st_error
                 ELSE /\ st_error' = Append(st_error, "Error: " \o r.raised.val)
                      /\ UNCHANGED <<cover_letter_raw, cover_letter_formatted,
                                     st_widgets>>
    /\ pc' = "render"
    /\ UNCHANGED <<inputs, texts, skills, content, summarizer_calls,
                   reader_calls, raised>>

Next ==
    \/ main_no_input
    \/ main_load_resume
    \/ main_analyze_job
    \/ main_analyze_resume
    \/ main_compare_skills
    \/ main_no_cover_letter
    \/ main_cover_letter
    \/ render_resume

Spec == Init /\ [][Next]_vars

---------------------------------------------------------------------------
(* Properties of a run of main() *)

\* The stages after the loader have left no trace: no summarizer or text_gen
\* call, no skill set, no letter, no block list, no result widget.
NothingDownstream ==
    /\ summarizer_calls = <<>> /\ text_gen_calls = <<>>
    /\ job_summary = None /\ resume_summary = None
    /\ job_skills = {} /\ resume_skills = {}
    /\ matched_skills = {} /\ missing_skills = {} /\ extra_skills = {}
    /\ top_extra = <<>>
    /\ cover_letter_raw = None /\ cover_letter_formatted = None
    /\ content = <<>>
    /\ st_widgets = <<>>

\* The upload is one whose text the loader finds empty.
UploadIsEmpty ==
    /\ ~resume_file.none
    /\ load_resume(resume_file.val).value = Some(<<>>)

\* C6, as stated: a run on an empty job text and an upload without text
\* still summarizes (the summarizer gets the empty string), extracts and
\* compares, with empty results.
C6_EmptyInputRunsPipeline ==
    (pc = "done" /\ job_desc = <<>> /\ UploadIsEmpty) =>
        /\ Len(summarizer_calls) = 2
        /\ summarizer_calls[1].input = <<>>
        /\ "skills" \in {st_widgets[k] : k \in 1..Len(st_widgets)}
        /\ matched_skills = {} /\ missing_skills = {} /\ extra_skills = {}
        /\ top_extra = <<>>

\* C6, amended: when the job text is empty, or the loaded resume text is
\* empty, no stage after the loader runs and nothing is shown; the summarizer is
\* never handed the empty string; and it is called only in runs whose job text
\* and loaded resume text are both non-empty.
C6_EmptyInputSkipsPipeline ==
    /\ (job_desc = <<>> \/ resume_text = Some(<<>>)) =>
          /\ NothingDownstream
          /\ pc \in {"start", "done"}
    /\ \A k \in 1..Len(summarizer_calls) : summarizer_calls[k].input # <<>>
    /\ summarizer_calls # <<>> =>
          /\ job_desc # <<>>
          /\ ~resume_text.none /\ resume_text.val # <<>>

\* C6's case: a run with a job text whose PDF loaded as the empty text has
\* ended with the reader called and nothing else done.
C6_Witness ==
    /\ pc = "done"
    /\ job_desc # <<>>
    /\ resume_text = Some(<<>>)
    /\ reader_calls = <<"read_pdf">>
    /\ summarizer_calls = <<>> /\ st_widgets = <<>>

\* The name's extension: what follows its last dot.
HasExtension(name, ext) ==
    \E k \in 1..Len(name) :
        /\ name[k] = 46
        /\ SubSeq(name, k + 1, Len(name)) = ext
        /\ \A j \in (k + 1)..Len(name) : name[j] # 46

\* C7: once main has called load_resume, an upload named *.pdf has had
\* read_pdf called once and nothing else, one named *.docx read_docx once; for
\* any other upload no reader was called, "Unsupported file format" is the one
\* error shown, the run has ended without an exception, and no stage after
\* the loader has run.
C7_UnsupportedFormat ==
    (pc # "start" /\ job_desc # <<>> /\ ~resume_file.none) =>
        LET name == resume_file.val.name
        IN  IF HasExtension(name, <<112, 100, 102>>)
            THEN reader_calls = <<"read_pdf">>
            ELSE IF HasExtension(name, <<100, 111, 99, 120>>)
            THEN reader_calls = <<"read_docx">>
            ELSE /\ reader_calls = <<>>
                 /\ st_error = <<"Unsupported file format">>
                 /\ resume_text = None
                 /\ raised = None
                 /\ pc = "done"
                 /\ NothingDownstream

\* C7's case: the run on the upload cv.txt has ended with the error shown.
C7_Witness ==
    /\ pc = "done"
    /\ ~resume_file.none /\ resume_file.val.name = TxtName
    /\ st_error = <<"Unsupported file format">>
    /\ reader_calls = <<>>

\* body is raw without the whitespace at its ends.
IsStripOf(body, raw) ==
    /\ body # <<>> => ~IsSpace(body[1]) /\ ~IsSpace(body[Len(body)])
    /\ \E i \in 1..(Len(raw) + 1) :
          /\ SubSeq(raw, i, i + Len(body) - 1) = body
          /\ \A k \in 1..Len(raw) : (k < i \/ k >= i + Len(body)) => IsSpace(raw[k])

CoverWidgets ==
    {k \in 1..Len(st_widgets) :
        st_widgets[k] \in {"cover_letter_text", "cover_letter_download"}}

\* C8: when the text_gen call has failed, the error is shown by st.error and
\* there is no formatted letter, no letter text area and no letter download;
\* when it has returned, the formatted letter is the salutation, the generated
\* text without the whitespace at its ends, and the closing with the
\* signature, and it is shown and offered for download.
C8_LetterAllOrNothing ==
    /\ (text_gen_calls # <<>> /\ cover_letter_raw = None) =>
          /\ cover_letter_formatted = None
          /\ CoverWidgets = {}
          /\ st_error = <<"Error: GenerationError">>
    /\ cover_letter_raw = None => cover_letter_formatted = None /\ CoverWidgets = {}
    /\ cover_letter_raw # None =>
          LET f == cover_letter_formatted.val
              a == Len(Salutation)
              z == Len(Closing)
          IN  /\ cover_letter_formatted # None
              /\ Len(f) >= a + z
              /\ SubSeq(f, 1, a) = Salutation
              /\ SubSeq(f, Len(f) - z + 1, Len(f)) = Closing
              /\ IsStripOf(SubSeq(f, a + 1, Len(f) - z), cover_letter_raw.val)
              /\ Cardinality(CoverWidgets) = 2
              /\ st_error = <<>>

\* C8's case: the text_gen call of a run has failed, the run went on to its
\* end, and the error is all that was shown of the letter.
C8_Witness ==
    /\ pc = "done"
    /\ Len(text_gen_calls) = 1
    /\ cover_letter_raw = None /\ cover_letter_formatted = None
    /\ st_error = <<"Error: GenerationError">>

\* C9, as stated: a run calls the summarizer once per text, on the text's
\* first 1500 characters, and a call that fails is caught and shown as a
\* summarization failure: no exception leaves the run.
C9_SummarizerFailureReported ==
    /\ Len(summarizer_calls) <= 2
    /\ \A k \in 1..Len(summarizer_calls) :
          /\ k = 1 => summarizer_calls[k].input = SubSeq(job_desc, 1, Min(1500, Len(job_desc)))
          /\ ~summarizer_calls[k].ok =>
                /\ raised = None
                /\ pc # "crashed"
                /\ st_error # <<>>

====
